---- MODULE Spec2Model ----
(***************************************************************************)
(* Model of the candidate-selection core of QReel:                         *)
(*   backend/quantum_search/classical.py  classical_search                 *)
(*   backend/quantum_search/grover.py     quantum_search                   *)
(* Text is a sequence of one-character strings, numbers that Python holds  *)
(* as floats are exact rationals <<numerator, denominator>>.               *)
(***************************************************************************)
EXTENDS Integers, Sequences, FiniteSets, TLC

(***************************************************************************)
(* Bounds of the explored inputs.                                          *)
(***************************************************************************)
\* longest query of the single-candidate inputs (titles are one shorter)
MaxLen == 3
\* longest candidate list
MaxN == 4

(***************************************************************************)
(* Exact rational arithmetic (the floats of the source).                   *)
(***************************************************************************)
Abs(x) == IF x < 0 THEN -x ELSE x

RECURSIVE GCD(_, _)
GCD(a, b) == IF b = 0 THEN a ELSE GCD(b, a % b)

\* the rational n/d in lowest terms with a positive denominator (d # 0)
Rat(n, d) ==
    LET g == GCD(Abs(n), Abs(d))
        s == IF d < 0 THEN -1 ELSE 1
    IN  <<(s * n) \div g, (s * d) \div g>>

RInt(k) == <<k, 1>>
RAdd(x, y) == Rat(x[1] * y[2] + y[1] * x[2], x[2] * y[2])
RSub(x, y) == Rat(x[1] * y[2] - y[1] * x[2], x[2] * y[2])
RMul(x, y) == Rat(x[1] * y[1], x[2] * y[2])
\* x / y for y # 0
RDiv(x, y) == Rat(x[1] * y[2], x[2] * y[1])
RLess(x, y) == x[1] * y[2] < y[1] * x[2]
RLeq(x, y) == x[1] * y[2] <= y[1] * x[2]

\* sum(v) of a list of numbers
RECURSIVE RSum(_)
RSum(v) == IF v = <<>> THEN RInt(0) ELSE RAdd(v[1], RSum(Tail(v)))

\* max(v) of a non-empty list of numbers
RECURSIVE RMax(_)
RMax(v) ==
    IF Len(v) = 1 THEN v[1]
    ELSE LET m == RMax(Tail(v)) IN IF RLess(v[1], m) THEN m ELSE v[1]

Range(s) == {s[i] : i \in DOMAIN s}

(***************************************************************************)
(* Python text operations used by the scorers.                             *)
(***************************************************************************)
UpperToLower ==
    ("A" :> "a") @@ ("B" :> "b") @@ ("C" :> "c") @@ ("D" :> "d") @@
    ("E" :> "e") @@ ("F" :> "f") @@ ("G" :> "g") @@ ("H" :> "h") @@
    ("I" :> "i") @@ ("J" :> "j") @@ ("K" :> "k") @@ ("L" :> "l") @@
    ("M" :> "m") @@ ("N" :> "n") @@ ("O" :> "o") @@ ("P" :> "p") @@
    ("Q" :> "q") @@ ("R" :> "r") @@ ("S" :> "s") @@ ("T" :> "t") @@
    ("U" :> "u") @@ ("V" :> "v") @@ ("W" :> "w") @@ ("X" :> "x") @@
    ("Y" :> "y") @@ ("Z" :> "z")

\* str.lower()
Lower(s) ==
    [i \in DOMAIN s |->
        IF s[i] \in DOMAIN UpperToLower THEN UpperToLower[s[i]] ELSE s[i]]

Whitespace == {" "}

\* str.split(): the maximal runs of non-whitespace characters, in order
RECURSIVE SplitFrom(_, _, _)
SplitFrom(s, i, cur) ==
    LET flush == IF cur = <<>> THEN <<>> ELSE <<cur>>
    IN  IF i > Len(s) THEN flush
        ELSE IF s[i] \in Whitespace THEN flush \o SplitFrom(s, i + 1, <<>>)
        ELSE SplitFrom(s, i + 1, Append(cur, s[i]))

Split(s) == SplitFrom(s, 1, <<>>)

\* term in text, on strings: term occurs as a contiguous substring
IsSubstring(term, text) ==
    \E i \in 0..(Len(text) - Len(term)) :
        SubSeq(text, i + 1, i + Len(term)) = term

\* dict.get(key, default)
Get(movie, key, default) ==
    IF key \in DOMAIN movie THEN movie[key] ELSE default

None == [none |-> TRUE]
Id(movie) == [id |-> movie.id]

(***************************************************************************)
(* classical_search                                                        *)
(***************************************************************************)
\* ClassicalScore without the popularity term
ClassicalScoreNoPopularity(movie, query) ==
    LET query_words == Range(Split(Lower(query)))
        title_words == Range(Split(Lower(Get(movie, "title", <<>>))))
        overview_words == Range(Split(Lower(Get(movie, "overview", <<>>))))
    IN  RInt(Cardinality(query_words \cap title_words) * 3
             + Cardinality(query_words \cap overview_words))

\* ClassicalScore with the popularity term subtracted
ClassicalScoreMinusPopularity(movie, query) ==
    RSub(ClassicalScoreNoPopularity(movie, query),
         RDiv(RInt(Get(movie, "popularity", 0)), RInt(20)))

\* the score of one movie against the set of query words
ClassicalScore(movie, query) ==
    LET query_words == Range(Split(Lower(query)))
        title == Lower(Get(movie, "title", <<>>))
        overview == Lower(Get(movie, "overview", <<>>))
        title_words == Range(Split(title))
        overview_words == Range(Split(overview))
        title_matches == Cardinality(query_words \cap title_words) * 3
        overview_matches == Cardinality(query_words \cap overview_words)
        popularity == RDiv(RInt(Get(movie, "popularity", 0)), RInt(20))
    IN  RAdd(RInt(title_matches + overview_matches), popularity)

ClassicalScores(movies, query) ==
    [i \in DOMAIN movies |-> ClassicalScore(movies[i], query)]

\* Better with >= for >: a later candidate with an equal score wins
BetterOrEqual(score, highest_score) == RLeq(highest_score, score)

\* the comparison that replaces the best match found so far
Better(score, highest_score) == RLess(highest_score, score)

\* the loop over the movies from index i on; best is an index, 0 for None
RECURSIVE ClassicalLoop(_, _, _, _, _)
ClassicalLoop(movies, query, i, best_match, highest_score) ==
    IF i > Len(movies) THEN best_match
    ELSE LET score == ClassicalScore(movies[i], query)
         IN  IF Better(score, highest_score)
             THEN ClassicalLoop(movies, query, i + 1, i, score)
             ELSE ClassicalLoop(movies, query, i + 1, best_match, highest_score)

\* classical_search without the guard of the empty list: movies[0] raises
classical_search_unguarded(movies, query) ==
    LET best_match == ClassicalLoop(movies, query, 1, 0, RInt(-1))
    IN  IF best_match # 0 THEN Id(movies[best_match])
        ELSE IF movies = <<>> THEN [raised |-> "IndexError"]
        ELSE Id(movies[1])

classical_search(movies, query) ==
    IF movies = <<>> THEN None
    ELSE LET best_match == ClassicalLoop(movies, query, 1, 0, RInt(-1))
         IN  IF best_match # 0 THEN Id(movies[best_match]) ELSE Id(movies[1])

(***************************************************************************)
(* quantum_search: scoring                                                 *)
(***************************************************************************)
\* sum(w for term in terms if term in text)
RECURSIVE SumMatches(_, _, _)
SumMatches(terms, text, w) ==
    IF terms = <<>> THEN 0
    ELSE (IF IsSubstring(terms[1], text) THEN w ELSE 0)
         + SumMatches(Tail(terms), text, w)

\* QuantumScore with movie.get('popularity', 1) for movie.get('popularity', 0)
QuantumScoreDefaultOne(movie, query) ==
    LET title == Lower(Get(movie, "title", <<>>))
        overview == Lower(Get(movie, "overview", <<>>))
        query_terms == Split(Lower(query))
    IN  RAdd(RInt(SumMatches(query_terms, title, 3)
                  + SumMatches(query_terms, overview, 1)),
             RDiv(RInt(Get(movie, "popularity", 1)), RInt(20)))

QuantumScore(movie, query) ==
    LET title == Lower(Get(movie, "title", <<>>))
        overview == Lower(Get(movie, "overview", <<>>))
        query_terms == Split(Lower(query))
        title_score == SumMatches(query_terms, title, 3)
        overview_score == SumMatches(query_terms, overview, 1)
        popularity == RDiv(RInt(Get(movie, "popularity", 0)), RInt(20))
    IN  RAdd(RInt(title_score + overview_score), popularity)

QuantumScores(movies, query) ==
    [i \in DOMAIN movies |-> QuantumScore(movies[i], query)]

(***************************************************************************)
(* quantum_search: normalisation, amplification, measurement               *)
(***************************************************************************)
\* sum(scores) or 1
TotalOrOne(scores) ==
    LET total == RSum(scores) IN IF total = RInt(0) THEN RInt(1) ELSE total

Probabilities(scores) ==
    LET total == TotalOrOne(scores)
    IN  [i \in DOMAIN scores |-> RDiv(scores[i], total)]

\* int(math.sqrt(n))
ISqrt(n) == CHOOSE k \in 0..n : k * k <= n /\ (k + 1) * (k + 1) > n

\* probabilities.index(max(probabilities)): the first index of the maximum
IndexOfMax(probs) ==
    LET m == RMax(probs)
    IN  CHOOSE i \in DOMAIN probs :
            probs[i] = m /\ \A j \in 1..(i - 1) : probs[j] # m

AmplifyFactor == Rat(3, 2)

\* the guard of the rescaling
ShouldRescale(other_sum) == RLess(RInt(0), other_sum)

\* amplified_probs - amplified_probs[max_idx] summed, after the multiplication
OtherSum(probs, idx) ==
    LET a == [probs EXCEPT ![idx] = RMul(@, AmplifyFactor)]
    IN  RSub(RSum(a), a[idx])

\* one pass of the body of the amplification loop
AmplifyStep(probs, idx) ==
    LET a == [probs EXCEPT ![idx] = RMul(@, AmplifyFactor)]
        other_sum == RSub(RSum(a), a[idx])
    IN  IF ShouldRescale(other_sum)
        THEN LET reduction_factor == RDiv(RSub(RInt(1), a[idx]), other_sum)
             IN  [i \in DOMAIN a |->
                     IF i # idx THEN RMul(a[i], reduction_factor) ELSE a[i]]
        ELSE a

\* itertools.accumulate(weights)
CumWeights(weights) ==
    [i \in DOMAIN weights |-> RSum(SubSeq(weights, 1, i))]

\* bisect.bisect_right(a, x, lo, hi) with Python's 0-based lo and hi
RECURSIVE Bisect(_, _, _, _)
Bisect(a, x, lo, hi) ==
    IF lo < hi
    THEN LET mid == (lo + hi) \div 2
         IN  IF RLess(x, a[mid + 1]) THEN Bisect(a, x, lo, mid)
             ELSE Bisect(a, x, mid + 1, hi)
    ELSE lo

\* One representative of every interval of [0, total) on which the bisection
\* is constant: 0 and the cumulative weights strictly between 0 and total.
\* For total = 0 the only value of random() * total is 0.
SamplePoints(cum, total) ==
    {RInt(0)} \cup {c \in Range(cum) : RLess(RInt(0), c) /\ RLess(c, total)}

\* the 1-based index random.choices picks when random() * total = x
PickAt(weights, x) ==
    Bisect(CumWeights(weights), x, 0, Len(weights) - 1) + 1

\* The outcomes of random.choices(range(n), weights=weights, k=1)[0]: an
\* index, or "ValueError".  With a total of weights <= 0 Python >= 3.9
\* raises ValueError('Total of weights must be greater than zero'), Python
\* <= 3.8 bisects for 0.0; both interpreters are outcomes.
Choices(weights) ==
    LET cum == CumWeights(weights)
        total == cum[Len(weights)]
        picks == {PickAt(weights, x) : x \in SamplePoints(cum, total)}
    IN  IF RLeq(total, RInt(0))
        THEN [raises |-> TRUE, picks |-> picks]
        ELSE [raises |-> FALSE, picks |-> picks]

\* Available without available_indices.remove(chosen_idx)
AvailableUnremoved(n, chosen) == 1..n

\* random.choice(available_indices) after available_indices.remove(chosen)
Available(n, chosen) == (1..n) \ {chosen}

\* random.random() < 0.05
AnomalyChance == Rat(1, 20)

RECURSIVE RSumOver(_, _)
RSumOver(S, f) ==
    IF S = {} THEN RInt(0)
    ELSE LET x == CHOOSE y \in S : TRUE
         IN  RAdd(f[x], RSumOver(S \ {x}, f))

\* The probability that random.choices picks index i, for a total of
\* weights > 0: the share of [0, total) on which the bisection ends at i.
SampleProb(weights, i) ==
    LET cum == CumWeights(weights)
        total == cum[Len(weights)]
        pts == SamplePoints(cum, total)
        next(b) ==
            LET above == {c \in pts \cup {total} : RLess(b, c)}
            IN  CHOOSE c \in above : \A d \in above : RLeq(c, d)
        width == [b \in pts |-> RSub(next(b), b)]
    IN  RDiv(RSumOver({b \in pts : PickAt(weights, b) = i}, width), total)

\* The probability that quantum_search returns the candidate at index i:
\* sampled and kept, or another index sampled and i drawn in the anomaly
\* branch out of the n - 1 others (n >= 2).
ReturnProb(weights, i) ==
    LET m == Len(weights)
        redraw == [j \in 1..m |-> RDiv(SampleProb(weights, j), RInt(m - 1))]
    IN  RAdd(RMul(RSub(RInt(1), AnomalyChance), SampleProb(weights, i)),
             RMul(AnomalyChance, RSumOver((1..m) \ {i}, redraw)))

(***************************************************************************)
(* Inputs.                                                                 *)
(***************************************************************************)
Chars == {"a", "A", " "}
Str(k) == UNION {[1..m -> Chars] : m \in 0..k}
Pops == {0, 10, 20}

\* one candidate with short texts; overview and popularity may be absent
TextMovies ==
    LET ids == {1}
        titles == Str(MaxLen - 1)
        overviews == Str(1)
        pops == {10}
    IN  [id : ids, title : titles]
        \cup [id : ids, title : titles, overview : overviews]
        \cup [id : ids, title : titles, popularity : pops]
        \cup [id : ids, title : titles, overview : overviews, popularity : pops]

\* the lists of at most one such candidate
TextLists == {<<>>} \cup {<<m>> : m \in TextMovies}

\* lists of candidates whose title matches the query "a" or is empty and
\* that differ in popularity; ids run against the list order
RECURSIVE ListPrefixes(_, _)
ListPrefixes(n, k) ==
    IF k = 0 THEN {<<>>}
    ELSE {Append(ms, m) :
            ms \in ListPrefixes(n, k - 1),
            m \in [id : {n + 1 - k}, title : {<<"A">>, <<>>}, popularity : Pops]}

ListMovies(n) == ListPrefixes(n, n)

ListQuery == <<"a">>

\* the end-to-end example: The Matrix / Matrix Reloaded, "matrix hacker"
ExampleMovies ==
    << [id |-> 1,
        title |-> <<"T","h","e"," ","M","a","t","r","i","x">>,
        overview |-> <<"A"," ","h","a","c","k","e","r"," ","d","i","s","c",
                       "o","v","e","r","s"," ","r","e","a","l","i","t","y">>,
        popularity |-> 80],
       [id |-> 2,
        title |-> <<"M","a","t","r","i","x"," ","R","e","l","o","a","d","e","d">>,
        overview |-> <<"N","e","o"," ","f","i","g","h","t","s">>,
        popularity |-> 40] >>

ExampleQuery == <<"m","a","t","r","i","x"," ","h","a","c","k","e","r">>

\* the arguments of the explored calls
Inputs(ms, q) ==
    \/ ms \in TextLists /\ q \in Str(MaxLen)
    \/ \E k \in 2..MaxN : ms \in ListMovies(k) /\ q = ListQuery
    \/ ms = ExampleMovies /\ q = ExampleQuery

(***************************************************************************)
(* One call of a ranker.                                                   *)
(***************************************************************************)
VARIABLES
    movies, query,        \* the arguments of the call
    ranker,               \* "classical" | "quantum" once called
    pc,                   \* "start" | "amplify" | "measured" | "done" | "raised"
    result,               \* the returned value, None or Id(movie)
    error,                \* the exception raised, "none" without one
    scores, probabilities, n, iterations, max_idx, amplified_probs,
    it,                   \* passes of the amplification loop completed
    chosen_idx,           \* 1-based
    quantum_anomaly

\* The /search request around the call (application.py).
VARIABLES
    hpc,                  \* position of the handler, "direct" without one
    use_quantum,          \* request.use_quantum
    likely_year,          \* refined_data.get("likely_year"), <<>> when falsy
    movie_id,             \* None or Id(movie)
    calls,                \* the collaborators and rankers called, in order
    response              \* the status the client receives, 0 before

handler == <<hpc, use_quantum, likely_year, movie_id, calls, response>>

\* The generator behind random.choices, random.random and random.choice: the
\* one hidden instance of the random module, which every call in the process
\* reads and advances.
VARIABLES
    generator,            \* values the instance has served so far
    draws,                \* positions of its stream this call was served
    other,                \* position of a concurrent quantum_search call
    other_draws           \* positions of the stream that call was served

rng == <<generator, draws, other, other_draws>>

vars == <<movies, query, ranker, pc, result, error, scores, probabilities, n,
          iterations, max_idx, amplified_probs, it, chosen_idx,
          quantum_anomaly, handler, rng>>

locals == <<scores, probabilities, n, iterations, max_idx, amplified_probs,
            it, chosen_idx, quantum_anomaly>>

ranker_state == <<ranker, pc, result, error, locals>>

\* no ranker has been entered and its locals are unassigned
RankerIdle ==
    /\ ranker = "none"
    /\ result = None
    /\ error = "none"
    /\ scores = <<>>
    /\ probabilities = <<>>
    /\ n = 0
    /\ iterations = 0
    /\ max_idx = 0
    /\ amplified_probs = <<>>
    /\ it = 0
    /\ chosen_idx = 0
    /\ quantum_anomaly = FALSE

\* a ranker called directly, outside a request
NoHandler ==
    /\ hpc = "direct"
    /\ use_quantum = FALSE
    /\ likely_year = <<>>
    /\ movie_id = None
    /\ calls = <<>>
    /\ response = 0

\* no call has drawn yet and no other call is running
NoOtherCall ==
    /\ generator = 0
    /\ draws = <<>>
    /\ other = "none"
    /\ other_draws = <<>>

Init ==
    /\ Inputs(movies, query)
    /\ NoHandler
    /\ NoOtherCall
    /\ ranker = "none"
    /\ pc = "start"
    /\ result = None
    /\ error = "none"
    /\ scores = <<>>
    /\ probabilities = <<>>
    /\ n = 0
    /\ iterations = 0
    /\ max_idx = 0
    /\ amplified_probs = <<>>
    /\ it = 0
    /\ chosen_idx = 0
    /\ quantum_anomaly = FALSE

\* classical_search(movies, query)
ClassicalSearch ==
    /\ pc = "start"
    /\ ranker \in {"none", "classical"}
    /\ ranker' = "classical"
    /\ result' = classical_search(movies, query)
    /\ pc' = "done"
    /\ UNCHANGED <<movies, query, error, locals>>
    /\ UNCHANGED <<handler, rng>>

\* quantum_search: if not movies: return None
QuantumEmpty ==
    /\ pc = "start"
    /\ ranker \in {"none", "quantum"}
    /\ movies = <<>>
    /\ ranker' = "quantum"
    /\ result' = None
    /\ pc' = "done"
    /\ UNCHANGED <<movies, query, error, locals>>
    /\ UNCHANGED <<handler, rng>>

\* quantum_search from the scoring loop to the start of the amplification
QuantumScoring ==
    /\ pc = "start"
    /\ ranker \in {"none", "quantum"}
    /\ movies # <<>>
    /\ ranker' = "quantum"
    /\ scores' = QuantumScores(movies, query)
    /\ IF TotalOrOne(scores') = RInt(0)
       THEN /\ error' = "ZeroDivisionError"
            /\ pc' = "raised"
            /\ UNCHANGED <<probabilities, n, iterations, max_idx,
                           amplified_probs>>
       ELSE /\ probabilities' = Probabilities(scores')
            /\ n' = Len(movies)
            /\ iterations' = ISqrt(n')
            /\ max_idx' = IndexOfMax(probabilities')
            /\ amplified_probs' = probabilities'
            /\ pc' = "amplify"
            /\ UNCHANGED error
    /\ UNCHANGED <<movies, query, result, it, chosen_idx, quantum_anomaly>>
    /\ UNCHANGED <<handler, rng>>

\* one pass of: for _ in range(iterations)
QuantumAmplify ==
    /\ pc = "amplify"
    /\ it < iterations
    /\ LET other_sum == OtherSum(amplified_probs, max_idx)
       IN  IF ShouldRescale(other_sum) /\ other_sum = RInt(0)
           THEN /\ error' = "ZeroDivisionError"
                /\ pc' = "raised"
                /\ UNCHANGED <<amplified_probs, it>>
           ELSE /\ amplified_probs' = AmplifyStep(amplified_probs, max_idx)
                /\ it' = it + 1
                /\ UNCHANGED <<pc, error>>
    /\ UNCHANGED <<movies, query, ranker, result, scores, probabilities, n,
                   iterations, max_idx, chosen_idx, quantum_anomaly>>
    /\ UNCHANGED <<handler, rng>>

\* chosen_idx = random.choices(range(len(movies)), weights=amplified_probs)[0]
QuantumMeasure ==
    /\ pc = "amplify"
    /\ it = iterations
    /\ LET c == Choices(amplified_probs)
       IN  \/ /\ c.raises
              /\ error' = "ValueError"
              /\ pc' = "raised"
              /\ UNCHANGED chosen_idx
              /\ UNCHANGED <<generator, draws>>
           \/ /\ \E i \in c.picks : chosen_idx' = i
              /\ generator' = generator + 1
              /\ draws' = Append(draws, generator)
              /\ pc' = "measured"
              /\ UNCHANGED error
    /\ UNCHANGED <<movies, query, ranker, result, scores, probabilities, n,
                   iterations, max_idx, amplified_probs, it, quantum_anomaly>>
    /\ UNCHANGED <<handler, other, other_draws>>

\* quantum_anomaly = random.random() < 0.05, the re-draw, and the return
QuantumAnomaly ==
    /\ pc = "measured"
    /\ \E anomaly \in BOOLEAN :
        /\ quantum_anomaly' = anomaly
        /\ LET available_indices == Available(Len(movies), chosen_idx)
           IN  IF anomaly /\ available_indices # {}
               THEN /\ \E i \in available_indices : chosen_idx' = i
                    /\ generator' = generator + 2
                    /\ draws' = draws \o <<generator, generator + 1>>
               ELSE /\ chosen_idx' = chosen_idx
                    /\ generator' = generator + 1
                    /\ draws' = Append(draws, generator)
    /\ result' = Id(movies[chosen_idx'])
    /\ pc' = "done"
    /\ UNCHANGED <<movies, query, ranker, error, scores, probabilities, n,
                   iterations, max_idx, amplified_probs, it>>
    /\ UNCHANGED <<handler, other, other_draws>>



Next ==
    \/ ClassicalSearch
    \/ QuantumEmpty
    \/ QuantumScoring
    \/ QuantumAmplify
    \/ QuantumMeasure
    \/ QuantumAnomaly

Spec == Init /\ [][Next]_vars

(***************************************************************************)
(* Two quantum_search calls in one process: the call above and another     *)
(* whose list is its own and whose draws come from the same generator.     *)
(***************************************************************************)
InitConcurrent ==
    /\ \E k \in 0..MaxN : movies \in ListMovies(k)
    /\ query = ListQuery
    /\ NoHandler
    /\ pc = "start"
    /\ RankerIdle
    /\ generator = 0
    /\ draws = <<>>
    /\ other = "start"
    /\ other_draws = <<>>

\* the other call's random.choices: one value, or ValueError before any
OtherMeasure ==
    /\ other = "start"
    /\ \/ /\ generator' = generator + 1
          /\ other_draws' = Append(other_draws, generator)
          /\ other' = "measured"
       \/ /\ other' = "raised"
          /\ UNCHANGED <<generator, other_draws>>
    /\ UNCHANGED <<movies, query, ranker_state, handler, draws>>

\* the other call's random.random() and, on an anomaly, its random.choice
OtherAnomaly ==
    /\ other = "measured"
    /\ \E k \in {1, 2} :
          /\ generator' = generator + k
          /\ other_draws' = other_draws \o [i \in 1..k |-> generator + i - 1]
    /\ other' = "done"
    /\ UNCHANGED <<movies, query, ranker_state, handler, draws>>

NextConcurrent ==
    \/ QuantumEmpty
    \/ QuantumScoring
    \/ QuantumAmplify
    \/ QuantumMeasure
    \/ QuantumAnomaly
    \/ OtherMeasure
    \/ OtherAnomaly

SpecConcurrent == InitConcurrent /\ [][NextConcurrent]_vars

(***************************************************************************)
(* The /search handler of application.py around the ranker call.           *)
(***************************************************************************)
\* most candidates the provider returns
MaxResults == 2

\* str.strip()
RECURSIVE LStrip(_)
LStrip(s) ==
    IF s # <<>> /\ s[1] \in Whitespace THEN LStrip(Tail(s)) ELSE s

RECURSIVE RStrip(_)
RStrip(s) ==
    IF s # <<>> /\ s[Len(s)] \in Whitespace
    THEN RStrip(SubSeq(s, 1, Len(s) - 1)) ELSE s

Strip(s) == RStrip(LStrip(s))

\* s[:4]
FirstFour(s) == SubSeq(s, 1, IF Len(s) < 4 THEN Len(s) ELSE 4)

\* the index of the first movie with that title and year, 0 for none
RECURSIVE MatchFrom(_, _, _, _)
MatchFrom(ms, title, year, i) ==
    IF i > Len(ms) THEN 0
    ELSE LET movie_title == Strip(Lower(Get(ms[i], "title", <<>>)))
             movie_year == FirstFour(Get(ms[i], "release_date", <<>>))
         IN  IF movie_title = title /\ movie_year = year THEN i
             ELSE MatchFrom(ms, title, year, i + 1)

match_movie_by_title_and_year(ms, title, year) ==
    LET i == MatchFrom(ms, Strip(Lower(title)), Strip(year), 1)
    IN  IF i = 0 THEN None ELSE Id(ms[i])

\* HasMovies without the test: the empty list passes
HasMoviesUnchecked(ms) == TRUE

\* if not movies: raise ..., the complement of its test
HasMovies(ms) == ms # <<>>

\* not v, for None or an id
Falsy(v) == v = None \/ v = [id |-> 0]

\* what select_best_movie_match can return: the id at the index the model
\* answered, or movies[0]["id"] when the answer is absent or out of range
SelectBestOutcomes(ms) ==
    IF ms = <<>> THEN {None} ELSE {Id(ms[i]) : i \in DOMAIN ms}

\* except Exception as e: raise HTTPException(status_code=500, ...)
ExceptException(status) == 500

\* the provider's answers: ids start at 0 or at 1
Year == <<"1", "9", "9", "9">>
ResultMovies(id) ==
    LET ids == {id}
        titles == {<<"A">>, <<>>}
        pops == {0, 20}
    IN  [id : ids, title : titles, popularity : pops]
        \cup [id : ids, title : titles, popularity : pops,
              release_date : {Year \o <<"-", "0", "3">>}]

RECURSIVE ResultPrefixes(_, _)
ResultPrefixes(base, k) ==
    IF k = 0 THEN {<<>>}
    ELSE {Append(ms, m) :
            ms \in ResultPrefixes(base, k - 1), m \in ResultMovies(base + k)}

SearchResults ==
    UNION {ResultPrefixes(base, k) : base \in {-1, 0}, k \in 0..MaxResults}

RefinedQueries == {<<"a">>, <<"a", " ">>}
LikelyYears == {<<>>, Year, <<" ">> \o Year}

InitSearch ==
    /\ hpc = "received"
    /\ use_quantum \in BOOLEAN
    /\ likely_year = <<>>
    /\ movie_id = None
    /\ calls = <<>>
    /\ response = 0
    /\ movies = <<>>
    /\ query = <<>>
    /\ pc = "idle"
    /\ RankerIdle
    /\ NoOtherCall

\* refined_data = await refine_search_query(request.query)
SearchRefine ==
    /\ hpc = "received"
    /\ query' \in RefinedQueries
    /\ likely_year' \in LikelyYears
    /\ calls' = Append(calls, "refine_search_query")
    /\ hpc' = "refined"
    /\ UNCHANGED <<movies, use_quantum, movie_id, response, ranker_state>>
    /\ UNCHANGED rng

\* movies = await search_movies(refined_query), which may raise
SearchMovies ==
    /\ hpc = "refined"
    /\ calls' = Append(calls, "search_movies")
    /\ \/ /\ movies' \in SearchResults
          /\ hpc' = "searched"
          /\ UNCHANGED <<response, error>>
       \/ /\ error' = "HTTPStatusError"
          /\ response' = ExceptException(0)
          /\ hpc' = "responded"
          /\ UNCHANGED movies
    /\ UNCHANGED <<query, use_quantum, likely_year, movie_id, ranker, pc,
                   result, locals>>
    /\ UNCHANGED rng

\* if not movies: raise HTTPException(404), inside the try
SearchNoMovies ==
    /\ hpc = "searched"
    /\ ~HasMovies(movies)
    /\ error' = "HTTPException"
    /\ response' = ExceptException(404)
    /\ hpc' = "responded"
    /\ UNCHANGED <<movies, query, use_quantum, likely_year, movie_id, calls,
                   ranker, pc, result, locals>>
    /\ UNCHANGED rng

Matched ==
    IF likely_year # <<>>
    THEN match_movie_by_title_and_year(movies, query, likely_year)
    ELSE None

\* the title and year match gave an id: no ranker is needed
SearchMatched ==
    /\ hpc = "searched"
    /\ HasMovies(movies)
    /\ ~Falsy(Matched)
    /\ movie_id' = Matched
    /\ hpc' = "selected"
    /\ UNCHANGED <<movies, query, use_quantum, likely_year, calls, response,
                   ranker_state>>
    /\ UNCHANGED rng

\* movie_id = quantum_search(movies, refined_query): the call is entered
SearchCallQuantum ==
    /\ hpc = "searched"
    /\ HasMovies(movies)
    /\ Falsy(Matched)
    /\ use_quantum
    /\ calls' = Append(calls, "quantum_search")
    /\ ranker' = "quantum"
    /\ pc' = "start"
    /\ hpc' = "ranking"
    /\ UNCHANGED <<movies, query, use_quantum, likely_year, movie_id, response,
                   result, error, locals>>
    /\ UNCHANGED rng

\* movie_id = await select_best_movie_match(...) or classical_search(...)
SearchSelectBest ==
    /\ hpc = "searched"
    /\ HasMovies(movies)
    /\ Falsy(Matched)
    /\ ~use_quantum
    /\ \E best \in SelectBestOutcomes(movies) :
          IF Falsy(best)
          THEN /\ calls' = calls \o <<"select_best_movie_match",
                                      "classical_search">>
               /\ ranker' = "classical"
               /\ pc' = "start"
               /\ hpc' = "ranking"
               /\ UNCHANGED movie_id
          ELSE /\ calls' = Append(calls, "select_best_movie_match")
               /\ movie_id' = best
               /\ hpc' = "selected"
               /\ UNCHANGED <<ranker, pc>>
    /\ UNCHANGED <<movies, query, use_quantum, likely_year, response, result,
                   error, locals>>
    /\ UNCHANGED rng

\* the ranker returned: movie_id is its result
SearchRankerReturned ==
    /\ hpc = "ranking"
    /\ pc = "done"
    /\ movie_id' = result
    /\ hpc' = "selected"
    /\ UNCHANGED <<movies, query, use_quantum, likely_year, calls, response,
                   ranker_state>>
    /\ UNCHANGED rng

\* the ranker raised: the handler's except clause answers
SearchRankerRaised ==
    /\ hpc = "ranking"
    /\ pc = "raised"
    /\ response' = ExceptException(0)
    /\ hpc' = "responded"
    /\ UNCHANGED <<movies, query, use_quantum, likely_year, movie_id, calls,
                   ranker_state>>
    /\ UNCHANGED rng

\* movie_details = await get_movie_details(movie_id) and the rest of the
\* handler, each of which may raise
SearchDetails ==
    /\ hpc = "selected"
    /\ calls' = Append(calls, "get_movie_details")
    /\ \/ response' = 200 /\ UNCHANGED error
       \/ response' = ExceptException(0) /\ error' = "HTTPStatusError"
    /\ hpc' = "responded"
    /\ UNCHANGED <<movies, query, use_quantum, likely_year, movie_id,
                   ranker, pc, result, locals>>
    /\ UNCHANGED rng

NextSearch ==
    \/ SearchRefine
    \/ SearchMovies
    \/ SearchNoMovies
    \/ SearchMatched
    \/ SearchCallQuantum
    \/ SearchSelectBest
    \/ SearchRankerReturned
    \/ SearchRankerRaised
    \/ SearchDetails
    \/ ClassicalSearch
    \/ QuantumScoring
    \/ QuantumAmplify
    \/ QuantumMeasure
    \/ QuantumAnomaly

SpecSearch == InitSearch /\ [][NextSearch]_vars

(***************************************************************************)
(* Properties.                                                             *)
(***************************************************************************)
Ended == pc \in {"done", "raised"}
Indices == DOMAIN movies

\* C1: for an empty candidate list both rankers return None and none raises.
C1_EmptyReturnsNone ==
    (movies = <<>> /\ pc # "start")
        => (pc = "done" /\ result = None /\ error = "none")

C1_Witness ==
    movies = <<>> /\ query # <<>> /\ ranker = "quantum" /\ pc = "done"

\* C2: for a list of exactly one candidate, whatever its score, a call of
\* either ranker ends by returning that candidate's id.
C2_SingleReturnsIt ==
    (Len(movies) = 1 /\ Ended) => (pc = "done" /\ result = Id(movies[1]))

\* C3: when every candidate scores 0, quantum_search divides by nothing
\* that is zero, raises nothing while amplifying and sampling, and returns
\* the id of a candidate of the list.
AllScoresZero ==
    /\ movies # <<>>
    /\ \A i \in Indices : QuantumScore(movies[i], query) = RInt(0)

C3_ZeroScoresReturnSomeId ==
    (ranker = "quantum" /\ AllScoresZero)
        => /\ pc # "raised"
           /\ pc = "done" => \E i \in Indices : result = Id(movies[i])

\* C4: after each pass of the amplification loop the entries of
\* amplified_probs sum to 1.
C4_SumsToOne ==
    (ranker = "quantum" /\ pc = "amplify" /\ it >= 1)
        => RSum(amplified_probs) = RInt(1)

\* The score in the words of the contract: 3 for each distinct lower-cased
\* query term that is a token of the lower-cased title, 1 for each that is a
\* token of the lower-cased overview, plus popularity / 20.
TokensOf(text) == Range(Split(Lower(text)))
Has(movie, key) == key \in DOMAIN movie
WholeTokenScore(movie, q) ==
    LET terms == TokensOf(q)
        inTitle == {t \in terms : t \in TokensOf(movie.title)}
        inOverview ==
            IF Has(movie, "overview")
            THEN {t \in terms : t \in TokensOf(movie.overview)} ELSE {}
        pop == IF Has(movie, "popularity") THEN movie.popularity ELSE 0
    IN  Rat(20 * (3 * Cardinality(inTitle) + Cardinality(inOverview)) + pop, 20)

IsExample == movies = ExampleMovies /\ query = ExampleQuery

\* C5: classical_search on a non-empty list returns the id of a candidate
\* whose score (title tokens x 3 + overview tokens + popularity / 20) is the
\* maximum of the list; on the example the scores are 8 and 5 and the
\* result is id 1.
C5_ClassicalReturnsMaximum ==
    (ranker = "classical" /\ pc = "done" /\ movies # <<>>)
        => /\ \E i \in Indices :
                /\ result = Id(movies[i])
                /\ \A j \in Indices :
                     RLeq(WholeTokenScore(movies[j], query),
                          WholeTokenScore(movies[i], query))
           /\ IsExample =>
                /\ ClassicalScores(movies, query) = <<RInt(8), RInt(5)>>
                /\ result = [id |-> 1]

C5_Witness ==
    IsExample /\ ranker = "classical" /\ pc = "done" /\ result = [id |-> 1]

\* C6: among several candidates with the maximum score classical_search
\* returns the one at the smallest index.
C6_FirstOfTies ==
    (ranker = "classical" /\ pc = "done" /\ movies # <<>>)
        => \A i \in Indices :
              result = Id(movies[i])
                => \A j \in 1..(i - 1) :
                      RLess(WholeTokenScore(movies[j], query),
                            WholeTokenScore(movies[i], query))

C6_Witness ==
    /\ ranker = "classical" /\ pc = "done"
    /\ \E i, j \in Indices :
          /\ i < j
          /\ result = Id(movies[i])
          /\ WholeTokenScore(movies[j], query) = WholeTokenScore(movies[i], query)

\* C7: the score vector of quantum_search equals, entry by entry, the score
\* vector classical_search computes for the same list and query.
C7_SameScores ==
    (ranker = "quantum" /\ pc # "start" /\ movies # <<>>)
        => scores = ClassicalScores(movies, query)

\* C8: for a list of two or more candidates the candidate with the highest
\* base score (the target of the amplification) is returned with a strictly
\* larger probability than any other candidate.
C8_BestIsLikeliest ==
    (ranker = "quantum" /\ pc = "amplify" /\ it = iterations /\ n >= 2)
        => /\ ~Choices(amplified_probs).raises
           /\ \A j \in Indices \ {max_idx} :
                 RLess(ReturnProb(amplified_probs, j),
                       ReturnProb(amplified_probs, max_idx))

\* the list with the popularity of the candidate at index i set to p
WithPopularity(ms, i, p) ==
    [ms EXCEPT ![i] =
        [k \in DOMAIN ms[i] \cup {"popularity"} |->
            IF k = "popularity" THEN p ELSE ms[i][k]]]

Increases == {5, 10, 100}

\* C9: raising one candidate's popularity, all else fixed, never lowers its
\* score, and a candidate classical_search returned before the increase is
\* still returned after it.
C9_PopularityMonotone ==
    (ranker = "classical" /\ pc = "done" /\ movies # <<>>)
        => \A i \in Indices : \A d \in Increases :
              LET before == IF Has(movies[i], "popularity")
                            THEN movies[i].popularity ELSE 0
                  raised == WithPopularity(movies, i, before + d)
              IN  /\ RLeq(ClassicalScore(movies[i], query),
                          ClassicalScore(raised[i], query))
                  /\ result = Id(movies[i])
                        => classical_search(raised, query) = result

C9_Witness ==
    /\ ranker = "classical" /\ pc = "done"
    /\ \E i \in Indices \ {1} :
          /\ result = Id(movies[i])
          /\ classical_search(WithPopularity(movies, i, 100), query) = result
          /\ classical_search(WithPopularity(movies, 1, 100), query) # result

\* the candidate with the defaults of absent fields written out
FillDefaults(movie) ==
    [k \in DOMAIN movie \cup {"overview", "popularity"} |->
        IF k \in DOMAIN movie THEN movie[k]
        ELSE IF k = "overview" THEN <<>> ELSE 0]

Filled == [i \in Indices |-> FillDefaults(movies[i])]

\* C10: a candidate without overview or popularity makes neither ranker
\* raise for the absent field, and is scored as the same candidate with
\* overview "" and popularity 0 written out.
C10_AbsentFieldsAreDefaults ==
    (pc # "start" /\ movies # <<>>)
        => /\ error \in {"none", "ValueError"}
           /\ ranker = "classical" =>
                /\ ClassicalScores(movies, query) = ClassicalScores(Filled, query)
                /\ result = classical_search(Filled, query)
           /\ ranker = "quantum" => scores = QuantumScores(Filled, query)

C10_Witness ==
    /\ ranker = "quantum" /\ pc = "done"
    /\ \E i \in Indices :
          /\ ~Has(movies[i], "overview")
          /\ ~Has(movies[i], "popularity")
          /\ RLess(RInt(0), scores[i])
          /\ result = Id(movies[i])

\* C11: when the anomaly branch fires on two or more candidates the final
\* index differs from the sampled one and can be each of the other n - 1
\* indices; on a single candidate the sampled index is kept.
C11_AnomalyPicksAnother ==
    /\ [][(pc = "measured" /\ quantum_anomaly')
            => IF Len(movies) >= 2 THEN chosen_idx' # chosen_idx
               ELSE chosen_idx' = chosen_idx]_vars
    /\ [](pc = "measured"
            => \A i \in (1..Len(movies)) \ {chosen_idx} :
                  ENABLED (QuantumAnomaly /\ quantum_anomaly' /\ chosen_idx' = i))

C11_Witness ==
    /\ ranker = "quantum" /\ pc = "done" /\ quantum_anomaly
    /\ Len(movies) >= 3
    /\ chosen_idx # max_idx

\* C12: a pass of the amplification loop skips the rescaling (other_sum is
\* not > 0) only when n = 1 or every probability other than the one at
\* max_idx is 0.
C12_SkipOnlyWhenOthersZero ==
    (ranker = "quantum" /\ pc = "amplify" /\ it < iterations)
        => (~ShouldRescale(OtherSum(amplified_probs, max_idx))
              => \/ n = 1
                 \/ \A i \in Indices \ {max_idx} : amplified_probs[i] = RInt(0))

\* C15: after each pass of the amplification loop every entry of
\* amplified_probs lies in [0, 1], so no weight handed to random.choices is
\* negative.
C15_EntriesAreProbabilities ==
    (ranker = "quantum" /\ pc = "amplify" /\ it >= 1)
        => \A i \in Indices :
              /\ RLeq(RInt(0), amplified_probs[i])
              /\ RLeq(amplified_probs[i], RInt(1))

Rankers == {"quantum_search", "classical_search"}
RankerCalls == {i \in DOMAIN calls : calls[i] \in Rankers}
DetailsCalls == {i \in DOMAIN calls : calls[i] = "get_movie_details"}
Selected == hpc \in {"selected", "responded"} /\ movies # <<>>
NoMatch == Matched \in {None, [id |-> 0]}

\* C13 as stated: a request whose provider search returned candidates
\* invokes exactly one of the two rankers before it fetches the details,
\* and no ranker is entered with an empty list.
C13_ExactlyOneRanker ==
    /\ pc = "start" => movies # <<>>
    /\ (Selected /\ error # "HTTPStatusError")
          => /\ Cardinality(RankerCalls) = 1
             /\ \A i \in RankerCalls : \A j \in DetailsCalls : i < j

\* C13 as amended: such a request invokes at most one ranker, before the
\* details are fetched: quantum_search exactly when use_quantum is set and
\* the title and year match gave no id, classical_search only when
\* use_quantum is unset, the match gave no id and select_best_movie_match
\* returned the id 0; no ranker is entered with an empty list.
C13_AtMostOneRanker ==
    /\ pc = "start" => movies # <<>>
    /\ Cardinality(RankerCalls) <= 1
    /\ \A i \in RankerCalls : \A j \in DetailsCalls : i < j
    /\ Selected =>
          /\ "quantum_search" \in Range(calls) <=> (use_quantum /\ NoMatch)
          /\ "classical_search" \in Range(calls)
                => /\ ~use_quantum /\ NoMatch
                   /\ \E i \in DOMAIN movies : movies[i].id = 0
                   /\ \E i \in RankerCalls :
                         i > 1 /\ calls[i - 1] = "select_best_movie_match"

C13_Witness ==
    /\ hpc = "responded" /\ response = 200
    /\ Len(movies) >= 2
    /\ "quantum_search" \in Range(calls)
    /\ movie_id = result /\ movie_id = Id(movies[2])

\* C16: when the provider returns no movies the request ends without a
\* ranker call or a details fetch and the client receives the 404
\* "No movies found".
C16_NoMoviesIs404 ==
    (hpc = "responded" /\ error = "HTTPException")
        => /\ RankerCalls = {}
           /\ DetailsCalls = {}
           /\ response = 404

\* C14: concurrent quantum_search calls do not interfere: the values a call
\* draws are consecutive values of its own source, wherever the draws of
\* the other call fall between them.
C14_DrawsAreCallLocal ==
    \A k \in 1..(Len(draws) - 1) : draws[k + 1] = draws[k] + 1

====
